---- MODULE Spec2Model ----
(***************************************************************************)
(* A model of src/src/comparator.py: the PageComparator class, the         *)
(* module-level similarity estimators and compare_images.                  *)
(*                                                                         *)
(* Floats are fixed-point integers: Unit stands for 1.0.  A call ends      *)
(* either with a value or with an exception that leaves the callee; both   *)
(* are recorded as an outcome record.  The libraries the code calls        *)
(* (PIL, numpy, OpenCV, scikit-image, pytesseract) are the environment:    *)
(* what they compute from pixels that the code fixes (histogram, absolute  *)
(* difference, the mean) is computed; what the code leaves to them (the    *)
(* structural index, the keypoints, the recognised text, whether a call    *)
(* faults) is a choice among the outcomes they can produce.                *)
(***************************************************************************)
EXTENDS Integers, Sequences, FiniteSets, TLC

\* ------------------------------------------------------------------ bounds

\* Largest side of an input image, in pixels.
MaxSide == 7

\* Largest number of keypoints the detector reports for one image.
MaxKp == 2

\* ---------------------------------------------------- constants of the code

\* 1.0 as a fixed-point number (three decimals).
Unit == 1000

\* The 256 histogram bins of calcHist(..., [256], [0, 256]).
NBins == 256

\* 255.0, the divisor of the mean absolute difference.
MaxIntensity == 255

\* The weights of the combination, in hundredths.
W_SSIM == 35
W_HIST == 25
W_ORB == 15
W_TEXT == 15
W_PIXEL == 10

\* structural_similarity's default window: a side below it makes the call raise.
WinSize == 7

Min(a, b) == IF a <= b THEN a ELSE b
Max(a, b) == IF a >= b THEN a ELSE b

\* ------------------------------------------------------------------ images

\* A PIL image: mode, size = <<width, height>>, px[<<x, y>>] the pixel, an
\* intensity for mode "L" and <<r, g, b>> for mode "RGB".
Sides == {1, 2, MaxSide}
Sizes == Sides \X Sides

Coords(size) == (0 .. size[1] - 1) \X (0 .. size[2] - 1)

Checker(xy) == IF (xy[1] + xy[2]) % 2 = 0 THEN 0 ELSE 255

\* create_test_image(width, height, color) of the tests, and a textured page.
GrayImage(size, color) ==
    [mode |-> "L", size |-> size, px |-> [xy \in Coords(size) |-> color]]

CheckerImage(size) ==
    [mode |-> "L", size |-> size, px |-> [xy \in Coords(size) |-> Checker(xy)]]

RgbImage(size, rgb) ==
    [mode |-> "RGB", size |-> size, px |-> [xy \in Coords(size) |-> rgb]]

Images ==
    {GrayImage(s, c) : s \in Sizes, c \in {0, 128, 255}}
        \cup {CheckerImage(s) : s \in Sizes}
        \cup {RgbImage(s, <<255, 0, 0>>) : s \in Sizes}

\* Image.convert('L') of an RGB pixel: the ITU-R 601-2 luma transform in
\* PIL's 16-bit fixed point.
Luma(rgb) == (rgb[1] * 19595 + rgb[2] * 38470 + rgb[3] * 7471 + 32768) \div 65536

ConvertL(img) ==
    [mode |-> "L", size |-> img.size,
     px |-> [xy \in Coords(img.size) |-> Luma(img.px[xy])]]

\* x.convert('L') if x.mode != 'L' else x
ToGray(img) == IF img.mode # "L" THEN ConvertL(img) ELSE img

\* Image.resize(size): an image of the requested size whose pixels are
\* sampled from the source (the interpolation filter is the library's; the
\* sample nearest to each target pixel's centre stands for it).
Resize(img, size) ==
    [mode |-> img.mode, size |-> size,
     px |-> [xy \in Coords(size) |->
                img.px[<< ((2 * xy[1] + 1) * img.size[1]) \div (2 * size[1]),
                          ((2 * xy[2] + 1) * img.size[2]) \div (2 * size[2]) >>]]]

\* Mutant of ToArray: the array laid out as <<width, height>>, like size.
ToArrayAsSize(img) ==
    [shape |-> img.size, data |-> [xy \in Coords(img.size) |-> img.px[xy]]]

\* np.array(img) of an "L" image: shape = <<height, width>>, data[<<row, col>>].
ToArray(img) ==
    [shape |-> <<img.size[2], img.size[1]>>,
     data |-> [rc \in (0 .. img.size[2] - 1) \X (0 .. img.size[1] - 1) |->
                  img.px[<<rc[2], rc[1]>>]]]

\* Mutant of MeanSide: the mean rounded half up instead of truncated.
MeanSideRounded(a, b) == (a + b + 1) \div 2

\* int(np.mean([subj_side, obj_side])): the mean truncated to an integer.
MeanSide(a, b) == (a + b) \div 2

MeanDimensions(s1, s2) == <<MeanSide(s1[1], s2[1]), MeanSide(s1[2], s2[2])>>

\* Mutant of PreprocessPair: only the subject is resized to the mean.
PreprocessPairSubjectOnly(subject, object) ==
    IF subject.size # object.size
    THEN <<ToArray(Resize(subject, MeanDimensions(subject.size, object.size))),
           ToArray(object)>>
    ELSE <<ToArray(subject), ToArray(object)>>

\* PageComparator.preprocess_images_for_comparison: the pair of arrays.
PreprocessPair(subject, object) ==
    IF subject.size # object.size
    THEN LET md == MeanDimensions(subject.size, object.size)
         IN  <<ToArray(Resize(subject, md)), ToArray(Resize(object, md))>>
    ELSE <<ToArray(subject), ToArray(object)>>

\* PageComparator(subject, object): __init__ converts both inputs to
\* grayscale, keeps them and runs the preprocessing.
NewPageComparator(subject, object) ==
    LET s == ToGray(subject)
        o == ToGray(object)
        arrays == PreprocessPair(s, o)
    IN  [subject |-> s, object |-> o,
         subj_array |-> arrays[1], obj_array |-> arrays[2]]

\* ---------------------------------------------------------------- outcomes

\* How a call ends: with a value, or with an exception leaving the callee.
Value(v) == [kind |-> "value", val |-> v, exc |-> "none"]
Raise(e) == [kind |-> "raise", val |-> 0, exc |-> e]

\* What the libraries reported to an estimator during one call: whether a
\* library call raised, the structural index, the two descriptor counts and
\* the matches the matcher accepted and their number, the two OCR outputs,
\* the number of OCR calls made and which of them raised (0: none).
NoLib ==
    [raised |-> FALSE, index |-> 0, kp1 |-> 0, kp2 |-> 0, matches |-> 0,
     pairs |-> {}, text1 |-> <<>>, text2 |-> <<>>, ocr_calls |-> 0, ocr_failed |-> 0]

\* An outcome together with what the libraries reported on the way to it.
Observed(o, lib) == [kind |-> o.kind, val |-> o.val, exc |-> o.exc, lib |-> lib]

\* max(0.0, min(1.0, x))
Clamp01(x) == Max(0, Min(Unit, x))

\* sum of f[0] .. f[n - 1]
RECURSIVE SumTo(_, _)
SumTo(f, n) == IF n = 0 THEN 0 ELSE f[n - 1] + SumTo(f, n - 1)

\* floor of the square root of n >= 0, by bisection on lo..hi
RECURSIVE SqrtIn(_, _, _)
SqrtIn(n, lo, hi) ==
    IF lo >= hi THEN lo
    ELSE LET mid == (lo + hi + 1) \div 2
         IN  IF mid * mid <= n THEN SqrtIn(n, mid, hi) ELSE SqrtIn(n, lo, mid - 1)

ISqrt(n) == SqrtIn(n, 0, 46340)

NPixels(arr) == arr.shape[1] * arr.shape[2]

\* the k-th cell of an array in row-major order
Cell(arr, k) == arr.data[<<k \div arr.shape[2], k % arr.shape[2]>>]

IsUniform(arr) == \A rc \in DOMAIN arr.data : arr.data[rc] = arr.data[<<0, 0>>]

\* ------------------------------------------------- structural (SSIM) estimator

\* The indices the library may report for two arrays that are not identical.
SsimSamples == {0 - Unit, 0 - (Unit \div 2), 0, Unit \div 2, Unit}

\* skimage.metrics.structural_similarity(a, b) with its defaults: raises
\* ValueError when the shapes differ or a side is below the window;
\* otherwise an index in [-1, 1], which is 1 for identical arrays.
StructuralSimilarity(a, b) ==
    IF a.shape # b.shape \/ Min(a.shape[1], a.shape[2]) < WinSize
    THEN {Raise("ValueError")}
    ELSE IF a = b THEN {Value(Unit)} ELSE {Value(v) : v \in SsimSamples}

\* Mutant of SsimResult: the index returned without the floor at 0.0.
SsimResultUnclamped(index) == index

\* return max(0.0, similarity_score)
SsimResult(index) == Max(0, index)

\* Mutant of calculate_ssim_similarity: the body without its try, so that
\* the library's exception leaves the method.
calculate_ssim_similarity_no_try(self) ==
    {Observed(IF o.kind = "raise" THEN o ELSE Value(SsimResult(o.val)),
              [NoLib EXCEPT !.raised = (o.kind = "raise"), !.index = o.val]) :
        o \in StructuralSimilarity(self.subj_array, self.obj_array)}

\* PageComparator.calculate_ssim_similarity: try / except Exception -> 0.0
calculate_ssim_similarity(self) ==
    {Observed(IF o.kind = "raise" THEN Value(0) ELSE Value(SsimResult(o.val)),
              [NoLib EXCEPT !.raised = (o.kind = "raise"), !.index = o.val]) :
        o \in StructuralSimilarity(self.subj_array, self.obj_array)}

\* ------------------------------------------------------ histogram estimator

\* cv2.calcHist([img], [0], None, [256], [0, 256]): the count of every
\* intensity (bins that hold no pixel are 0 and are not enumerated).
CalcHist(arr, v) == Cardinality({rc \in DOMAIN arr.data : arr.data[rc] = v})

Intensities(arr) == {arr.data[rc] : rc \in DOMAIN arr.data}

RECURSIVE SumSet(_, _)
SumSet(f, S) ==
    IF S = {} THEN 0
    ELSE LET x == CHOOSE y \in S : TRUE IN f[x] + SumSet(f, S \ {x})

\* cv2.compareHist(hist1, hist2, HISTCMP_CORREL) of the two normalised
\* histograms h = c / n.  With N bins,
\*     r = (sum h1 h2 - 1/N) / sqrt((sum h1^2 - 1/N) (sum h2^2 - 1/N)),
\* which multiplied through by N n1 n2 is (N sum c1 c2 - n1 n2) /
\* sqrt((N sum c1^2 - n1^2) (N sum c2^2 - n2^2)); a vanishing denominator
\* gives 1.  The square roots are taken with ten fractional bits.
Correlation(img1, img2) ==
    LET vs  == Intensities(img1) \cup Intensities(img2)
        c1  == [v \in vs |-> CalcHist(img1, v)]
        c2  == [v \in vs |-> CalcHist(img2, v)]
        n1  == NPixels(img1)
        n2  == NPixels(img2)
        num == NBins * SumSet([v \in vs |-> c1[v] * c2[v]], vs) - n1 * n2
        d1  == NBins * SumSet([v \in vs |-> c1[v] * c1[v]], vs) - n1 * n1
        d2  == NBins * SumSet([v \in vs |-> c2[v] * c2[v]], vs) - n2 * n2
        den == (ISqrt(d1 * 1024) * ISqrt(d2 * 1024)) \div 1024
    IN  IF den = 0 THEN Unit ELSE (num * Unit) \div den

\* Mutant of HistResult: the correlation clamped as it is, without the
\* mapping of [-1, 1] onto [0, 1].
HistResultUnmapped(correlation) == Clamp01(correlation)

\* return max(0.0, min(1.0, (correlation + 1) / 2))
HistResult(correlation) == Clamp01((correlation + Unit) \div 2)

\* calculate_histogram_similarity(img1, img2): no try; fault says that
\* an OpenCV call raises.
calculate_histogram_similarity(img1, img2, fault) ==
    IF fault THEN {Observed(Raise("cv2.error"), [NoLib EXCEPT !.raised = TRUE])}
    ELSE {Observed(Value(HistResult(Correlation(img1, img2))), NoLib)}

\* -------------------------------------------------- feature (AKAZE) estimator

\* Binary descriptors, two bits each.
Descriptors == {0, 1, 3}

Hamming(a, b) ==
    (IF a % 2 # b % 2 THEN 1 ELSE 0)
        + (IF (a \div 2) % 2 # (b \div 2) % 2 THEN 1 ELSE 0)

SeqsUpTo(S, n) == UNION {[1 .. k -> S] : k \in 0 .. n}

\* akaze.detectAndCompute(img, None): one descriptor per keypoint; a flat
\* image has no keypoint.  <<>> stands for des = None.
DetectAndCompute(img) ==
    IF IsUniform(img) THEN {<<>>} ELSE SeqsUpTo(Descriptors, MaxKp)

\* The detector is deterministic: identical arrays give identical descriptors.
DetectPairs(img1, img2) ==
    {p \in DetectAndCompute(img1) \X DetectAndCompute(img2) :
        img1 = img2 => p[1] = p[2]}

\* the first index of `train` nearest to descriptor d
Nearest(d, train) ==
    CHOOSE j \in 1 .. Len(train) :
        /\ \A k \in 1 .. Len(train) : Hamming(d, train[j]) <= Hamming(d, train[k])
        /\ \A k \in 1 .. j - 1 : Hamming(d, train[k]) > Hamming(d, train[j])

\* Mutant of CrossCheckMatches: crossCheck=False, every query descriptor is
\* matched to its nearest train descriptor.
NearestMatches(des1, des2) ==
    {ij \in (1 .. Len(des1)) \X (1 .. Len(des2)) : Nearest(des1[ij[1]], des2) = ij[2]}

\* BFMatcher(NORM_HAMMING, crossCheck=True).match(des1, des2): the pairs
\* <<i, j>> in which j is the nearest to i and i is the nearest to j.
CrossCheckMatches(des1, des2) ==
    {ij \in (1 .. Len(des1)) \X (1 .. Len(des2)) :
        /\ Nearest(des1[ij[1]], des2) = ij[2]
        /\ Nearest(des2[ij[2]], des1) = ij[1]}

\* Mutant of OrbResult: two images without features are scored as
\* identical (1.0), the way the text estimator scores two empty texts.
OrbResultFeaturelessAlike(des1, des2) ==
    IF des1 = <<>> /\ des2 = <<>> THEN Unit
    ELSE IF des1 = <<>> \/ des2 = <<>> THEN 0
    ELSE LET matches == Cardinality(CrossCheckMatches(des1, des2))
             max_possible_matches == Min(Len(des1), Len(des2))
         IN  IF matches = 0 THEN 0
             ELSE IF max_possible_matches = 0 THEN 0
             ELSE Min(Unit, (matches * Unit) \div max_possible_matches)

\* Mutant of OrbResult: the matches divided by the larger keypoint count.
OrbResultByLargerCount(des1, des2) ==
    IF des1 = <<>> \/ des2 = <<>> THEN 0
    ELSE LET matches == Cardinality(CrossCheckMatches(des1, des2))
             max_possible_matches == Max(Len(des1), Len(des2))
         IN  IF matches = 0 THEN 0
             ELSE IF max_possible_matches = 0 THEN 0
             ELSE Min(Unit, (matches * Unit) \div max_possible_matches)

\* lines 91-111, from the descriptors on
OrbResult(des1, des2) ==
    IF des1 = <<>> \/ des2 = <<>> THEN 0
    ELSE LET matches == Cardinality(CrossCheckMatches(des1, des2))
             max_possible_matches == Min(Len(des1), Len(des2))
         IN  IF matches = 0 THEN 0
             ELSE IF max_possible_matches = 0 THEN 0
             ELSE Min(Unit, (matches * Unit) \div max_possible_matches)

\* calculate_orb_similarity(img1, img2): no try
calculate_orb_similarity(img1, img2, fault) ==
    IF fault THEN {Observed(Raise("cv2.error"), [NoLib EXCEPT !.raised = TRUE])}
    ELSE {Observed(Value(OrbResult(p[1], p[2])),
                   [NoLib EXCEPT !.kp1 = Len(p[1]), !.kp2 = Len(p[2]),
                                 !.matches = Cardinality(CrossCheckMatches(p[1], p[2])),
                                 !.pairs = CrossCheckMatches(p[1], p[2])]) :
             p \in DetectPairs(img1, img2)}

\* ----------------------------------------------------------- text estimator

\* Characters of a recognised text.
IsSpace(c) == c \in {" ", "\n"}

LowerChar(c) == IF c = "A" THEN "a" ELSE IF c = "B" THEN "b" ELSE c

\* str.lower()
Lower(t) == [i \in 1 .. Len(t) |-> LowerChar(t[i])]

\* str.split(): the maximal runs of non-whitespace characters, in order
RECURSIVE SplitFrom(_, _, _, _)
SplitFrom(t, i, word, words) ==
    IF i > Len(t)
    THEN IF word = <<>> THEN words ELSE Append(words, word)
    ELSE IF IsSpace(t[i])
         THEN SplitFrom(t, i + 1, <<>>,
                        IF word = <<>> THEN words ELSE Append(words, word))
         ELSE SplitFrom(t, i + 1, Append(word, t[i]), words)

Split(t) == SplitFrom(t, 1, <<>>, <<>>)

\* ' '.join(words)
RECURSIVE Join(_)
Join(words) ==
    IF words = <<>> THEN <<>>
    ELSE IF Len(words) = 1 THEN words[1]
    ELSE words[1] \o <<" ">> \o Join(Tail(words))

\* Mutant of Normalize: lower-cased only, the whitespace left as it is.
NormalizeLowerOnly(t) == Lower(t)

\* Mutant of Normalize: whitespace collapsed, the letter case kept.
NormalizeKeepCase(t) == Join(Split(t))

\* ' '.join(text.split()).lower()
Normalize(t) == Lower(Join(Split(t)))

\* set(text)
CharSet(t) == {t[i] : i \in 1 .. Len(t)}

\* hashlib.md5(text.encode()).hexdigest(): equal digests for equal texts,
\* different digests for the different texts of the model.
Md5(t) == <<"md5", t>>

\* Mutant of TextResult: the common characters over the smaller of the two
\* sets (the overlap coefficient) instead of over their union.
TextResultOverlap(raw1, raw2) ==
    IF raw1 = <<>> /\ raw2 = <<>> THEN Unit
    ELSE IF raw1 = <<>> \/ raw2 = <<>> THEN 0
    ELSE LET text1 == Normalize(raw1)
             text2 == Normalize(raw2)
             set1 == CharSet(text1)
             set2 == CharSet(text2)
             common_chars == Cardinality(set1 \cap set2)
             total_chars == Min(Cardinality(set1), Cardinality(set2))
         IN  IF text1 = <<>> /\ text2 = <<>> THEN Unit
             ELSE IF text1 = <<>> \/ text2 = <<>> THEN 0
             ELSE IF Md5(text1) = Md5(text2) THEN Unit
             ELSE IF set1 = {} /\ set2 = {} THEN Unit
             ELSE IF set1 = {} \/ set2 = {} THEN 0
             ELSE IF total_chars = 0 THEN Unit
             ELSE (common_chars * Unit) \div total_chars

\* lines 131-171: the score of two raw OCR outputs
TextResult(raw1, raw2) ==
    IF raw1 = <<>> /\ raw2 = <<>> THEN Unit
    ELSE IF raw1 = <<>> \/ raw2 = <<>> THEN 0
    ELSE LET text1 == Normalize(raw1)
             text2 == Normalize(raw2)
             set1 == CharSet(text1)
             set2 == CharSet(text2)
             common_chars == Cardinality(set1 \cap set2)
             total_chars == Cardinality(set1 \cup set2)
         IN  IF text1 = <<>> /\ text2 = <<>> THEN Unit
             ELSE IF text1 = <<>> \/ text2 = <<>> THEN 0
             ELSE IF Md5(text1) = Md5(text2) THEN Unit
             ELSE IF set1 = {} /\ set2 = {} THEN Unit
             ELSE IF set1 = {} \/ set2 = {} THEN 0
             ELSE IF total_chars = 0 THEN Unit
             ELSE (common_chars * Unit) \div total_chars

\* What the OCR capability may recognise: nothing on a flat image.
BlankTexts == {<<>>, <<" ", "\n">>}

PageTexts ==
    BlankTexts \cup
        {<<"a", "b">>, <<"b", "a">>, <<"a", "a", "b">>, <<"a", " ", "b">>,
         <<"A", "\n", " ", "B">>, <<"c">>}

\* pytesseract.image_to_string(img, config='--psm 1')
ImageToString(img) == IF IsUniform(img) THEN BlankTexts ELSE PageTexts

\* The OCR capability is deterministic: identical arrays give identical text.
OcrPairs(img1, img2) ==
    {p \in ImageToString(img1) \X ImageToString(img2) :
        img1 = img2 => p[1] = p[2]}

\* lines 128-129 when an OCR call raises: the first call raises and the
\* second is never made, or the first returns its text and the second raises.
OcrFailures(img1, img2) ==
    {[NoLib EXCEPT !.raised = TRUE, !.ocr_calls = 1, !.ocr_failed = 1]}
        \cup {[NoLib EXCEPT !.raised = TRUE, !.ocr_calls = 2, !.ocr_failed = 2,
                             !.text1 = t] : t \in ImageToString(img1)}

\* Mutant of TextExcept: the handler re-raises what it caught.
TextExceptReraise(exc) == Raise(exc)

\* except Exception: return 0.0 (lines 173-175)
TextExcept(exc) == Value(0)

\* calculate_text_similarity(img1, img2): the whole body is in a try whose
\* handler returns 0.0; fault says that an OCR call raises.
calculate_text_similarity(img1, img2, fault) ==
    IF fault
    THEN {Observed(TextExcept("TesseractError"), l) : l \in OcrFailures(img1, img2)}
    ELSE {Observed(Value(TextResult(p[1], p[2])),
                   [NoLib EXCEPT !.text1 = p[1], !.text2 = p[2], !.ocr_calls = 2]) :
             p \in OcrPairs(img1, img2)}

\* ---------------------------------------------------------- pixel estimator

\* cv2.resize(img, (width, height)): shape becomes <<height, width>>; the
\* cells are sampled from the source as in Resize.
ResizeArray(arr, shape) ==
    [shape |-> shape,
     data |-> [rc \in (0 .. shape[1] - 1) \X (0 .. shape[2] - 1) |->
                  arr.data[<< ((2 * rc[1] + 1) * arr.shape[1]) \div (2 * shape[1]),
                              ((2 * rc[2] + 1) * arr.shape[2]) \div (2 * shape[2]) >>]]]

\* Mutant of PixelOperands: the second array resized to the shape of the first.
PixelOperandsToFirst(img1, img2) ==
    IF img1.shape # img2.shape
    THEN <<img1, ResizeArray(img2, img1.shape)>>
    ELSE <<img1, img2>>

\* lines 190-194: both arrays at the minimum height and width when the
\* shapes differ
PixelOperands(img1, img2) ==
    IF img1.shape # img2.shape
    THEN LET m == <<Min(img1.shape[1], img2.shape[1]),
                    Min(img1.shape[2], img2.shape[2])>>
         IN  <<ResizeArray(img1, m), ResizeArray(img2, m)>>
    ELSE <<img1, img2>>

Abs(x) == IF x < 0 THEN 0 - x ELSE x

\* np.mean(cv2.absdiff(a, b)), in fixed point
MeanAbsDiff(a, b) ==
    LET n == NPixels(a)
    IN  (SumTo([k \in 0 .. n - 1 |-> Abs(Cell(a, k) - Cell(b, k))], n) * Unit) \div n

\* Mutant of PixelResult: the mean difference not divided by 255.
PixelResultUnscaled(avg_diff) == Max(0, Unit - avg_diff)

\* 1.0 - avg_diff / 255.0, floored at 0.0
PixelResult(avg_diff) == Max(0, Unit - avg_diff \div MaxIntensity)

\* calculate_pixel_similarity(img1, img2): no try
calculate_pixel_similarity(img1, img2, fault) ==
    IF fault THEN {Observed(Raise("cv2.error"), [NoLib EXCEPT !.raised = TRUE])}
    ELSE LET ops == PixelOperands(img1, img2)
         IN  {Observed(Value(PixelResult(MeanAbsDiff(ops[1], ops[2]))), NoLib)}

\* ------------------------------------------------------------ name lookup

\* Mutant of ModuleGlobals: the two names compare_images calls first are
\* bound at module level as well.
ModuleGlobalsAllBound ==
    {"cv2", "np", "Image", "pytesseract", "ssim", "hashlib", "PageComparator",
     "preprocess_image_for_comparison", "calculate_ssim_similarity",
     "calculate_histogram_similarity", "calculate_orb_similarity",
     "calculate_text_similarity", "calculate_pixel_similarity", "compare_images"}

\* The names comparator.py binds at module level (imports, the class, the
\* five def statements).
ModuleGlobals ==
    {"cv2", "np", "Image", "pytesseract", "ssim", "hashlib", "PageComparator",
     "calculate_histogram_similarity", "calculate_orb_similarity",
     "calculate_text_similarity", "calculate_pixel_similarity", "compare_images"}

\* The attributes the class body of PageComparator defines.
PageComparatorMethods ==
    {"__init__", "preprocess_images_for_comparison", "calculate_ssim_similarity"}

\* The five estimator names the tests call as no-argument methods.
EstimatorNames ==
    {"calculate_ssim_similarity", "calculate_histogram_similarity",
     "calculate_orb_similarity", "calculate_text_similarity",
     "calculate_pixel_similarity"}

\* The estimators that are module-level functions of two arrays.
EstimatorFunctions == EstimatorNames \cap ModuleGlobals

\* fn(*args) for a module-level name: NameError when the name is unbound.
CallGlobal(fn, args, fault) ==
    IF fn \notin ModuleGlobals THEN {Observed(Raise("NameError"), NoLib)}
    ELSE CASE fn = "calculate_histogram_similarity" ->
                  calculate_histogram_similarity(args[1], args[2], fault)
           [] fn = "calculate_orb_similarity" ->
                  calculate_orb_similarity(args[1], args[2], fault)
           [] fn = "calculate_text_similarity" ->
                  calculate_text_similarity(args[1], args[2], fault)
           [] fn = "calculate_pixel_similarity" ->
                  calculate_pixel_similarity(args[1], args[2], fault)
           [] OTHER -> {Observed(Raise("TypeError"), NoLib)}

\* self.name() on a PageComparator: AttributeError when the class does not
\* define the name.
CallMethod(self, name) ==
    IF name \notin PageComparatorMethods
    THEN {Observed(Raise("AttributeError"), NoLib)}
    ELSE CASE name = "calculate_ssim_similarity" -> calculate_ssim_similarity(self)
           [] OTHER -> {Observed(Raise("TypeError"), NoLib)}

\* --------------------------------------------------------- compare_images

\* The calls of the try body, lines 221-229, in order.
CompareStatements ==
    << [dst |-> "processed_img1", fn |-> "preprocess_image_for_comparison",
        args |-> <<"subject">>],
       [dst |-> "processed_img2", fn |-> "preprocess_image_for_comparison",
        args |-> <<"object">>],
       [dst |-> "ssim_score", fn |-> "calculate_ssim_similarity",
        args |-> <<"processed_img1", "processed_img2">>],
       [dst |-> "hist_score", fn |-> "calculate_histogram_similarity",
        args |-> <<"processed_img1", "processed_img2">>],
       [dst |-> "orb_score", fn |-> "calculate_orb_similarity",
        args |-> <<"processed_img1", "processed_img2">>],
       [dst |-> "text_score", fn |-> "calculate_text_similarity",
        args |-> <<"processed_img1", "processed_img2">>],
       [dst |-> "pixel_score", fn |-> "calculate_pixel_similarity",
        args |-> <<"processed_img1", "processed_img2">>] >>

\* lines 236-242, weights in hundredths
WeightedScore(ssim_score, hist_score, orb_score, text_score, pixel_score) ==
    (ssim_score * W_SSIM + hist_score * W_HIST + orb_score * W_ORB
        + text_score * W_TEXT + pixel_score * W_PIXEL) \div 100

\* line 245
CombinedResult(locals) ==
    Clamp01(WeightedScore(locals["ssim_score"], locals["hist_score"],
                          locals["orb_score"], locals["text_score"],
                          locals["pixel_score"]))

\* The try body from statement i on: every way it can end, with the set
\* `ran` of callees entered.  `fault` names the callee whose library call
\* raises ("none": no fault).
RECURSIVE RunStatements(_, _, _, _)
RunStatements(i, locals, ran, fault) ==
    IF i > Len(CompareStatements)
    THEN {[out |-> Value(CombinedResult(locals)), ran |-> ran]}
    ELSE LET st == CompareStatements[i]
             args == [k \in 1 .. Len(st.args) |-> locals[st.args[k]]]
         IN  IF st.fn \notin ModuleGlobals
             THEN {[out |-> Raise("NameError"), ran |-> ran]}
             ELSE UNION
                  {IF o.kind = "raise"
                   THEN {[out |-> Raise(o.exc), ran |-> ran \cup {st.fn}]}
                   ELSE RunStatements(i + 1, [locals EXCEPT ![st.dst] = o.val],
                                      ran \cup {st.fn}, fault) :
                       o \in CallGlobal(st.fn, args, fault = st.fn)}

LocalNames ==
    {"subject", "object", "processed_img1", "processed_img2", "ssim_score",
     "hist_score", "orb_score", "text_score", "pixel_score"}

\* The try body of compare_images(subject, object).
TryBody(subject, object, fault) ==
    RunStatements(1,
        [n \in LocalNames |->
            IF n = "subject" THEN subject ELSE IF n = "object" THEN object ELSE 0],
        {}, fault)

\* Mutant of Catches: the handler is written "except ValueError".
CatchesValueError(exc) == exc = "ValueError"

\* except Exception: every exception the body can raise is an Exception.
Catches(exc) == TRUE

\* Mutant of ExceptReturn: the handler returns -1.0 as an error marker.
ExceptReturnSentinel == 0 - Unit

\* return 0.0 of the handler
ExceptReturn == 0

\* print(f"Error in image comparison: {str(e)}")
Diagnostic(exc) == <<"Error in image comparison", exc>>

\* ------------------------------------------------------------------- state

VARIABLES
    img_a,        \* the caller's first image
    img_b,        \* the caller's second image
    comparator,   \* <<>> or <<the PageComparator built from img_a, img_b>>
    pc,           \* "idle", in compare_images ("try", "except"), or "returned"
    ret,          \* the call in progress or just ended, and how it ended
    ran,          \* the callees entered by the current compare_images call
    stdout,       \* what the current compare_images call printed
    lib,          \* what the libraries reported to the estimator call that ended
    cc,           \* concurrent comparisons: the threads and the printed lines
    pp,           \* page_processor: the database and the call in progress
    pd,           \* PdfParser.persist_to_db: the document and the run in progress
    tr,           \* translate_pdf: the script's run
    pf            \* PdfImageInserter.process_folder: the files and the pool

\* The state of the comparator module's sequential use.
comparatorVars == <<img_a, img_b, comparator, pc, ret, ran, stdout, lib>>

\* The state of the other programs of the repository; each specification
\* below uses one of them and leaves the rest unused.
otherVars == <<cc, pp, pd, tr, pf>>

vars == <<comparatorVars, otherVars>>

Unused == "unused"

NoCall ==
    [op |-> "none", src |-> "none", fault |-> FALSE,
     kind |-> "none", val |-> 0, exc |-> "none"]

Ended(op, src, fault, o) ==
    [op |-> op, src |-> src, fault |-> fault,
     kind |-> o.kind, val |-> o.val, exc |-> o.exc]

Init ==
    /\ img_a \in Images
    /\ img_b \in Images
    /\ comparator = <<>>
    /\ pc = "idle"
    /\ ret = NoCall
    /\ ran = {}
    /\ stdout = <<>>
    /\ lib = NoLib
    /\ cc = Unused
    /\ pp = Unused
    /\ pd = Unused
    /\ tr = Unused
    /\ pf = Unused

\* No call is in progress and the caller holds no unread result.
Quiescent == pc = "idle"

\* comparator = PageComparator(img_a, img_b)
Construct ==
    /\ Quiescent
    /\ comparator = <<>>
    /\ comparator' = <<NewPageComparator(img_a, img_b)>>
    /\ ret' = Ended("PageComparator", "none", FALSE, Value(0))
    /\ pc' = "returned"
    /\ UNCHANGED <<img_a, img_b, ran, stdout, lib, otherVars>>

\* comparator.name(), as the tests call the estimators
MethodCall(name) ==
    /\ Quiescent
    /\ comparator # <<>>
    /\ \E o \in CallMethod(comparator[1], name) :
           /\ ret' = Ended(name, "method", FALSE, o)
           /\ lib' = o.lib
    /\ pc' = "returned"
    /\ UNCHANGED <<img_a, img_b, comparator, ran, stdout, otherVars>>

\* The two arrays a caller hands to a module-level estimator: the
\* comparator's preprocessed pair, or the two images as arrays.
Operands(src) ==
    IF src = "preprocessed"
    THEN <<comparator[1].subj_array, comparator[1].obj_array>>
    ELSE <<ToArray(ToGray(img_a)), ToArray(ToGray(img_b))>>

\* fn(img1, img2) called directly on two arrays
FunctionCall(fn, src, fault) ==
    /\ Quiescent
    /\ src = "preprocessed" => comparator # <<>>
    /\ \E o \in CallGlobal(fn, Operands(src), fault) :
           /\ ret' = Ended(fn, src, fault, o)
           /\ lib' = o.lib
    /\ pc' = "returned"
    /\ UNCHANGED <<img_a, img_b, comparator, ran, stdout, otherVars>>

\* compare_images(img_a, img_b) is entered
CompareCall ==
    /\ Quiescent
    /\ pc' = "try"
    /\ ret' = [NoCall EXCEPT !.op = "compare_images"]
    /\ ran' = {}
    /\ stdout' = <<>>
    /\ UNCHANGED <<img_a, img_b, comparator, lib, otherVars>>

\* the try body runs: it returns the combined score or raises
CompareTry ==
    /\ pc = "try"
    /\ \E fault \in EstimatorNames \cup {"none"} :
         \E r \in TryBody(img_a, img_b, fault) :
           /\ ran' = r.ran
           /\ IF r.out.kind = "raise"
              THEN /\ pc' = "except"
                   /\ ret' = [ret EXCEPT !.kind = "pending", !.exc = r.out.exc,
                                         !.fault = fault # "none"]
              ELSE /\ pc' = "returned"
                   /\ ret' = Ended("compare_images", "none", fault # "none", r.out)
    /\ UNCHANGED <<img_a, img_b, comparator, stdout, lib, otherVars>>

\* the exception reaches the except clause of line 247
CompareExcept ==
    /\ pc = "except"
    /\ IF Catches(ret.exc)
       THEN /\ stdout' = Append(stdout, Diagnostic(ret.exc))
            /\ ret' = [ret EXCEPT !.kind = "value", !.val = ExceptReturn,
                                  !.exc = "none"]
       ELSE /\ stdout' = stdout
            /\ ret' = [ret EXCEPT !.kind = "raise"]
    /\ pc' = "returned"
    /\ UNCHANGED <<img_a, img_b, comparator, ran, lib, otherVars>>

\* the caller takes the outcome of the call that ended
TakeResult ==
    /\ pc = "returned"
    /\ pc' = "idle"
    /\ ret' = NoCall
    /\ lib' = NoLib
    /\ UNCHANGED <<img_a, img_b, comparator, ran, stdout, otherVars>>

Next ==
    \/ Construct
    \/ \E name \in EstimatorNames : MethodCall(name)
    \/ \E fn \in EstimatorFunctions, src \in {"preprocessed", "raw"},
          fault \in BOOLEAN : FunctionCall(fn, src, fault)
    \/ CompareCall
    \/ CompareTry
    \/ CompareExcept
    \/ TakeResult

Spec == Init /\ [][Next]_vars

\* ---------------------------------------------------- concurrent comparisons

\* Two callers that compare at the same time, each with its own two images.
Threads == {"t1", "t2"}

ThreadImages ==
    {GrayImage(<<1, 1>>, 0), GrayImage(<<2, 1>>, 255),
     CheckerImage(<<MaxSide, MaxSide>>)}

\* Mutant of AttributeOwner: subject, object and the two arrays are stored
\* on the class, which all instances share.
AttributeOwnerClass(self) == "class"

\* self.subject = ..., self.subj_array, self.obj_array = ...: the
\* attributes are stored on the instance.
AttributeOwner(self) == self

\* What a comparison returns when it runs alone on images a and b:
\* compare_images, or a PageComparator with one of its estimators.
AloneResults(op, a, b) ==
    LET c == NewPageComparator(a, b)
    IN  CASE op = "compare_images" ->
                 {IF r.out.kind = "raise" THEN ExceptReturn ELSE r.out.val :
                     r \in TryBody(a, b, "none")}
          [] op = "calculate_ssim_similarity" ->
                 {o.val : o \in calculate_ssim_similarity(c)}
          [] OTHER ->
                 {o.val : o \in calculate_pixel_similarity(c.subj_array, c.obj_array, FALSE)}

CcIdle == [at |-> "idle", op |-> "none", exc |-> "none", result |-> 0]

CcInit ==
    /\ cc \in {[inputs |-> inputs,
                 threads |-> [t \in Threads |-> CcIdle],
                 heap |-> [s \in Threads \cup {"class"} |-> <<>>],
                 stdout |-> {}] :
                inputs \in [Threads -> ThreadImages \X ThreadImages]}
    /\ img_a = GrayImage(<<1, 1>>, 0)
    /\ img_b = GrayImage(<<1, 1>>, 0)
    /\ comparator = <<>>
    /\ pc = "idle"
    /\ ret = NoCall
    /\ ran = {}
    /\ stdout = <<>>
    /\ lib = NoLib
    /\ pp = Unused
    /\ pd = Unused
    /\ tr = Unused
    /\ pf = Unused

CcRest == <<comparatorVars, pp, pd, tr, pf>>

\* thread t enters compare_images(subject, object) with its two images
CcCompareCall(t) ==
    /\ cc.threads[t].at = "idle"
    /\ cc' = [cc EXCEPT !.threads[t] = [CcIdle EXCEPT !.at = "try",
                                                      !.op = "compare_images"]]
    /\ UNCHANGED CcRest

\* the try body of thread t's call runs on the frame's own locals
CcCompareTry(t) ==
    /\ cc.threads[t].at = "try"
    /\ \E r \in TryBody(cc.inputs[t][1], cc.inputs[t][2], "none") :
           cc' = IF r.out.kind = "raise"
                 THEN [cc EXCEPT !.threads[t].at = "except",
                                 !.threads[t].exc = r.out.exc]
                 ELSE [cc EXCEPT !.threads[t].at = "returned",
                                 !.threads[t].result = r.out.val]
    /\ UNCHANGED CcRest

\* the handler of thread t's call prints to the process's stdout and
\* returns 0.0
CcCompareExcept(t) ==
    /\ cc.threads[t].at = "except"
    /\ cc' = [cc EXCEPT !.stdout = @ \cup {t},
                        !.threads[t].at = "returned",
                        !.threads[t].result = ExceptReturn]
    /\ UNCHANGED CcRest

\* thread t builds its own PageComparator(subject, object)
CcConstruct(t) ==
    /\ cc.threads[t].at = "idle"
    /\ cc' = [cc EXCEPT
                 !.heap[AttributeOwner(t)] =
                     <<NewPageComparator(cc.inputs[t][1], cc.inputs[t][2])>>,
                 !.threads[t] = [CcIdle EXCEPT !.at = "constructed"]]
    /\ UNCHANGED CcRest

\* thread t scores the arrays of its comparator: the method
\* calculate_ssim_similarity, or calculate_pixel_similarity on self.subj_array
\* and self.obj_array
CcEstimate(t, op) ==
    /\ cc.threads[t].at = "constructed"
    /\ LET self == cc.heap[AttributeOwner(t)][1]
           outcomes == IF op = "calculate_ssim_similarity"
                       THEN calculate_ssim_similarity(self)
                       ELSE calculate_pixel_similarity(self.subj_array,
                                                       self.obj_array, FALSE)
       IN  \E o \in outcomes :
               cc' = [cc EXCEPT !.threads[t].at = "returned",
                                !.threads[t].op = op,
                                !.threads[t].result = o.val]
    /\ UNCHANGED CcRest

\* thread t takes the result and is free for its next comparison
CcTakeResult(t) ==
    /\ cc.threads[t].at = "returned"
    /\ cc' = [cc EXCEPT !.threads[t] = CcIdle]
    /\ UNCHANGED CcRest

CcNext ==
    \E t \in Threads :
        \/ CcCompareCall(t)
        \/ CcCompareTry(t)
        \/ CcCompareExcept(t)
        \/ CcConstruct(t)
        \/ \E op \in {"calculate_ssim_similarity", "calculate_pixel_similarity"} :
              CcEstimate(t, op)
        \/ CcTakeResult(t)

SpecConcurrent == CcInit /\ [][CcNext]_vars

\* ---------------------------------------------------------- page_processor

\* The highest page number a stored document has.
MaxPage == 2

PdfPaths == {"a.pdf", "b.pdf"}

\* The tables documents and pages: for every path whether a document row
\* exists, and the page numbers that have a row.
Databases ==
    {db \in [PdfPaths -> [exists : BOOLEAN, pages : SUBSET (1 .. MaxPage)]] :
        \A p \in PdfPaths : ~db[p].exists => db[p].pages = {}}

\* cursor.fetchone() after SELECT id FROM documents WHERE file_path = ?:
\* the row, or <<>> for None.
SelectDocument(db, path) == IF db[path].exists THEN <<path>> ELSE <<>>

\* cursor.fetchone() after the SELECT on pages of lines 28-34
SelectPage(db, document_id, page_num) ==
    IF page_num \in db[document_id].pages THEN <<document_id, page_num>> ELSE <<>>

\* cursor.fetchone()[0] after SELECT COUNT(*) FROM pages WHERE document_id = ?
CountPages(db, document_id) == Cardinality(db[document_id].pages)

\* Mutant of RowMissing: the "if not row: raise ValueError" checks are absent.
RowMissingIgnored(row) == FALSE

\* "if not document_row" / "if not page_row"
RowMissing(row) == row = <<>>

\* Mutant of OnRaise: conn.close() is a plain last statement of the body,
\* not a finally clause, so an exception leaves the function at once.
OnRaiseLeave == "returned"

\* try ... finally: an exception in the body continues at the finally clause.
OnRaise == "finally"

NoPage == [kind |-> "none", n |-> 0]

\* The call state between two calls; the database stays.
PpIdle(db) ==
    [db |-> db, op |-> "none", path |-> "none", page_num |-> 0, at |-> "idle",
     conn |-> "none", opens |-> 0, closes |-> 0, queries |-> <<>>,
     document_id |-> "none", fault |-> FALSE, exc |-> "none", result |-> NoPage]

PpInit ==
    /\ pp \in {PpIdle(db) : db \in Databases}
    /\ img_a = GrayImage(<<1, 1>>, 0)
    /\ img_b = GrayImage(<<1, 1>>, 0)
    /\ comparator = <<>>
    /\ pc = "idle"
    /\ ret = NoCall
    /\ ran = {}
    /\ stdout = <<>>
    /\ lib = NoLib
    /\ cc = Unused
    /\ pd = Unused
    /\ tr = Unused
    /\ pf = Unused

PpRest == <<comparatorVars, cc, pd, tr, pf>>

\* The body raises exc.
PpRaise(exc, fault) == [pp EXCEPT !.exc = exc, !.fault = fault, !.at = OnRaise]

\* get_page(path, page_num) or get_page_count(path) is called:
\* sqlite3.connect and conn.cursor() of lines 17-18 and 80-81.  A failing
\* connect opens nothing and raises to the caller.
PpCall(op, path, page_num, fault) ==
    /\ pp.at = "idle"
    /\ pp' = IF fault
             THEN [pp EXCEPT !.op = op, !.path = path, !.page_num = page_num,
                             !.exc = "sqlite3.OperationalError", !.fault = TRUE,
                             !.at = "returned"]
             ELSE [pp EXCEPT !.op = op, !.path = path, !.page_num = page_num,
                             !.conn = "open", !.opens = 1, !.at = "select_document"]
    /\ UNCHANGED PpRest

\* lines 21-25 and 84-88: the document query, the check of its row
PpSelectDocument(fault) ==
    /\ pp.at = "select_document"
    /\ pp' = IF fault THEN PpRaise("sqlite3.Error", TRUE)
             ELSE LET row == SelectDocument(pp.db, pp.path)
                      issued == [pp EXCEPT !.queries = Append(@, "select_document")]
                  IN  IF RowMissing(row)
                      THEN [issued EXCEPT !.exc = "ValueError", !.at = OnRaise]
                      ELSE IF row = <<>>
                      THEN [issued EXCEPT !.exc = "TypeError", !.at = OnRaise]
                      ELSE [issued EXCEPT !.document_id = row[1],
                               !.at = IF pp.op = "get_page" THEN "select_page"
                                      ELSE "count_pages"]
    /\ UNCHANGED PpRest

\* lines 28-39 of get_page: the page query, the check of its row
PpSelectPage(fault) ==
    /\ pp.at = "select_page"
    /\ pp' = IF fault THEN PpRaise("sqlite3.Error", TRUE)
             ELSE LET row == SelectPage(pp.db, pp.document_id, pp.page_num)
                      issued == [pp EXCEPT !.queries = Append(@, "select_page")]
                  IN  IF RowMissing(row)
                      THEN [issued EXCEPT !.exc = "ValueError", !.at = OnRaise]
                      ELSE IF row = <<>>
                      THEN [issued EXCEPT !.exc = "TypeError", !.at = OnRaise]
                      ELSE [issued EXCEPT !.at = "select_images"]
    /\ UNCHANGED PpRest

\* lines 42-63 of get_page: the images query and return ParsedPage(...)
PpSelectImages(fault) ==
    /\ pp.at = "select_images"
    /\ pp' = IF fault THEN PpRaise("sqlite3.Error", TRUE)
             ELSE [pp EXCEPT !.queries = Append(@, "select_images"),
                             !.result = [kind |-> "ParsedPage", n |-> pp.page_num],
                             !.at = "finally"]
    /\ UNCHANGED PpRest

\* lines 91-94 of get_page_count: the count query and return page_count
PpCountPages(fault) ==
    /\ pp.at = "count_pages"
    /\ pp' = IF fault THEN PpRaise("sqlite3.Error", TRUE)
             ELSE [pp EXCEPT !.queries = Append(@, "count_pages"),
                             !.result = [kind |-> "count",
                                         n |-> CountPages(pp.db, pp.document_id)],
                             !.at = "finally"]
    /\ UNCHANGED PpRest

\* finally: conn.close(), then the return value or the exception reaches
\* the caller
PpFinally ==
    /\ pp.at = "finally"
    /\ pp' = [pp EXCEPT !.conn = "closed", !.closes = @ + 1, !.at = "returned"]
    /\ UNCHANGED PpRest

\* the caller goes on
PpTakeResult ==
    /\ pp.at = "returned"
    /\ pp' = PpIdle(pp.db)
    /\ UNCHANGED PpRest

PpNext ==
    \/ \E path \in PdfPaths, page_num \in 0 .. MaxPage + 1, fault \in BOOLEAN :
          PpCall("get_page", path, page_num, fault)
    \/ \E path \in PdfPaths, fault \in BOOLEAN :
          PpCall("get_page_count", path, 0, fault)
    \/ \E fault \in BOOLEAN : PpSelectDocument(fault)
    \/ \E fault \in BOOLEAN : PpSelectPage(fault)
    \/ \E fault \in BOOLEAN : PpSelectImages(fault)
    \/ \E fault \in BOOLEAN : PpCountPages(fault)
    \/ PpFinally
    \/ PpTakeResult

SpecPages == PpInit /\ [][PpNext]_vars

\* ------------------------------------------------- PdfParser.persist_to_db

\* The most pages a document has, and the most images a page has.
MaxDocPages == 2
MaxPageImages == 2

\* self.doc: for every page (0-based index + 1) the number of its images.
PdfDocs == UNION {[1 .. n -> 0 .. MaxPageImages] : n \in 0 .. MaxDocPages}

Stmt(op, page) == [op |-> op, page |-> page]

\* Mutant of PageNumber: the 0-based index is stored as the page number.
PageNumberZeroBased(page_num) == page_num

\* page_num + 1 of lines 80 and 84
PageNumber(page_num) == page_num + 1

\* lines 76-93 for the page of index page_num that has k images
RECURSIVE ImageInserts(_, _)
ImageInserts(page_num, k) ==
    IF k = 0 THEN <<>>
    ELSE Append(ImageInserts(page_num, k - 1), Stmt("insert_image", PageNumber(page_num)))

PageStatements(doc, page_num) ==
    << Stmt("get_text", page_num),
       Stmt("insert_page", PageNumber(page_num)),
       Stmt("select_page", PageNumber(page_num)),
       Stmt("get_images", page_num) >>
        \o ImageInserts(page_num, doc[page_num + 1])

\* for page_num in range(len(self.doc)), from index page_num on
RECURSIVE PagesFrom(_, _)
PagesFrom(doc, page_num) ==
    IF page_num >= Len(doc) THEN <<>>
    ELSE PageStatements(doc, page_num) \o PagesFrom(doc, page_num + 1)

\* The try body, lines 63-96, as the sequence of calls it makes.
PersistBody(doc) ==
    <<Stmt("insert_document", 0), Stmt("select_document", 0)>>
        \o PagesFrom(doc, 0) \o <<Stmt("commit", 0)>>

\* The calls that are cursor.execute statements.
SqlOps == {"insert_document", "select_document", "insert_page", "select_page",
           "insert_image"}

\* Mutant of PdOnRaise: no except clause, the exception goes to the finally.
PdOnRaiseFinally == "finally"

\* except Exception as e (line 98)
PdOnRaise == "except"

PdIdle(doc) ==
    [doc |-> doc, at |-> "idle", i |-> 1, issued |-> <<>>, conn |-> "none",
     opens |-> 0, commit_calls |-> 0, commits |-> 0, rollbacks |-> 0,
     closes |-> 0, log |-> <<>>, failed |-> "none", exc |-> "none"]

PdInit ==
    /\ pd \in {PdIdle(doc) : doc \in PdfDocs}
    /\ img_a = GrayImage(<<1, 1>>, 0)
    /\ img_b = GrayImage(<<1, 1>>, 0)
    /\ comparator = <<>>
    /\ pc = "idle"
    /\ ret = NoCall
    /\ ran = {}
    /\ stdout = <<>>
    /\ lib = NoLib
    /\ cc = Unused
    /\ pp = Unused
    /\ tr = Unused
    /\ pf = Unused

PdRest == <<comparatorVars, cc, pp, tr, pf>>

\* parser.persist_to_db() is called: lines 59-60.  A failing connect opens
\* nothing and raises to the caller.
PdCall(fault) ==
    /\ pd.at = "idle"
    /\ pd' = IF fault
             THEN [pd EXCEPT !.exc = "sqlite3.OperationalError",
                             !.failed = "connect", !.at = "returned"]
             ELSE [pd EXCEPT !.conn = "open", !.opens = 1, !.at = "body"]
    /\ UNCHANGED PdRest

\* the next call of the try body is made; it returns or raises
PdStatement(fault) ==
    /\ pd.at = "body"
    /\ LET st == PersistBody(pd.doc)[pd.i]
           called == [pd EXCEPT !.commit_calls = IF st.op = "commit" THEN @ + 1 ELSE @,
                                !.log = IF st.op = "commit" THEN Append(@, "commit") ELSE @]
       IN  pd' = IF fault
                 THEN [called EXCEPT !.exc = "Exception", !.failed = st.op,
                                     !.at = PdOnRaise]
                 ELSE [called EXCEPT
                         !.issued = IF st.op \in SqlOps THEN Append(@, st) ELSE @,
                         !.commits = IF st.op = "commit" THEN @ + 1 ELSE @,
                         !.i = @ + 1,
                         !.at = IF st.op = "commit" THEN "finally" ELSE "body"]
    /\ UNCHANGED PdRest

\* except Exception as e: conn.rollback(); raise e
PdExcept ==
    /\ pd.at = "except"
    /\ pd' = [pd EXCEPT !.rollbacks = @ + 1, !.log = Append(@, "rollback"),
                        !.at = "finally"]
    /\ UNCHANGED PdRest

\* finally: conn.close(); then the caller has the outcome
PdFinally ==
    /\ pd.at = "finally"
    /\ pd' = [pd EXCEPT !.closes = @ + 1, !.log = Append(@, "close"),
                        !.conn = "closed", !.at = "returned"]
    /\ UNCHANGED PdRest

\* the caller goes on
PdTakeResult ==
    /\ pd.at = "returned"
    /\ pd' = PdIdle(pd.doc)
    /\ UNCHANGED PdRest

PdNext ==
    \/ \E fault \in BOOLEAN : PdCall(fault)
    \/ \E fault \in BOOLEAN : PdStatement(fault)
    \/ PdExcept
    \/ PdFinally
    \/ PdTakeResult

SpecPersist == PdInit /\ [][PdNext]_vars

\* ------------------------------------------------------------ translate_pdf

\* The most text spans the first page of the input has.
MaxSpans == 2

\* fontsize * .7, in tenths of a point for a size in points
FallbackTenths == 7
FullTenths == 10

\* Mutant of FallbackFonts: the fallback fonts in alphabetical order.
FallbackFontsSorted == <<"courier", "helv", "times">>

\* fallback_fonts of line 9
FallbackFonts == <<"helv", "times", "courier">>

\* span["font"] and span["size"] of the spans collected by lines 29-42
SpanFonts == {"Sarabun", "helv"}
SpanSizes == {9, 12}
SpanLists == UNION {[1 .. n -> [font : SpanFonts, size : SpanSizes]] : n \in 0 .. MaxSpans}

\* page.insert_text(pos, text, fontsize=size, fontname=font): what was
\* asked for and whether it succeeded
Attempt(font, tenths, ok) == [font |-> font, tenths |-> tenths, ok |-> ok]

\* output_doc = fitz.open(); output_doc.new_page(...): the page count after
\* lines 45-47
NewOutputPages == 1

TrStart(spans) ==
    [spans |-> spans, idx |-> 1, at |-> "prompt", page_count |-> NewOutputPages,
     entered |-> 0, attempts |-> <<>>, e |-> "none", exc |-> "none",
     saved |-> FALSE, printed |-> <<>>]

TrInit ==
    /\ tr \in {TrStart(spans) : spans \in SpanLists}
    /\ img_a = GrayImage(<<1, 1>>, 0)
    /\ img_b = GrayImage(<<1, 1>>, 0)
    /\ comparator = <<>>
    /\ pc = "idle"
    /\ ret = NoCall
    /\ ran = {}
    /\ stdout = <<>>
    /\ lib = NoLib
    /\ cc = Unused
    /\ pp = Unused
    /\ pd = Unused
    /\ pf = Unused

TrRest == <<comparatorVars, cc, pp, pd, pf>>

\* lines 49-57: the next span is prompted for; an empty answer breaks the
\* loop, as does the end of the spans
TrPrompt(answered) ==
    /\ tr.at = "prompt"
    /\ tr' = IF tr.idx > Len(tr.spans) THEN [tr EXCEPT !.at = "save_check"]
             ELSE IF ~answered THEN [tr EXCEPT !.at = "save_check"]
             ELSE [tr EXCEPT !.entered = @ + 1, !.attempts = <<>>, !.e = "none",
                             !.at = "insert"]
    /\ UNCHANGED TrRest

\* lines 5-7 of insert_text_with_fallback: the requested font is tried
TrInsert(ok) ==
    /\ tr.at = "insert"
    /\ LET info == tr.spans[tr.idx]
           tried == [tr EXCEPT !.attempts =
                        Append(@, Attempt(info.font, FullTenths * info.size, ok))]
       IN  tr' = IF ok THEN [tried EXCEPT !.at = "inserted"]
                 ELSE [tried EXCEPT !.e = info.font, !.at = "fallback"]
    /\ UNCHANGED TrRest

\* lines 10-18: the next fallback font is tried; after the last one the
\* original exception e is raised
TrFallback(ok) ==
    /\ tr.at = "fallback"
    /\ LET info == tr.spans[tr.idx]
           k == Len(tr.attempts)
       IN  tr' = IF k > Len(FallbackFonts)
                 THEN [tr EXCEPT !.exc = tr.e, !.at = "raised"]
                 ELSE LET tried == [tr EXCEPT !.attempts =
                                       Append(@, Attempt(FallbackFonts[k],
                                                        FallbackTenths * info.size, ok))]
                      IN  IF ok
                          THEN [tried EXCEPT !.printed = Append(@, "Used fallback font"),
                                             !.at = "inserted"]
                          ELSE tried
    /\ UNCHANGED TrRest

\* insert_text_with_fallback has returned: the loop goes to the next span
TrNextSpan ==
    /\ tr.at = "inserted"
    /\ tr' = [tr EXCEPT !.idx = @ + 1, !.at = "prompt"]
    /\ UNCHANGED TrRest

\* lines 63-67
TrSaveCheck ==
    /\ tr.at = "save_check"
    /\ tr' = IF tr.page_count > 0
             THEN [tr EXCEPT !.saved = TRUE, !.printed = Append(@, "Saved translated PDF"),
                             !.at = "done"]
             ELSE [tr EXCEPT !.printed = Append(@, "No translations were entered"),
                             !.at = "done"]
    /\ UNCHANGED TrRest

TrNext ==
    \/ \E answered \in BOOLEAN : TrPrompt(answered)
    \/ \E ok \in BOOLEAN : TrInsert(ok)
    \/ \E ok \in BOOLEAN : TrFallback(ok)
    \/ TrNextSpan
    \/ TrSaveCheck

SpecTranslate == TrInit /\ [][TrNext]_vars

\* ------------------------------------------- PdfImageInserter.process_folder

\* The number of files in the input folder, and of worker processes.
MaxFiles == 3
NumCores == 2

FileIds == 1 .. MaxFiles
Workers == 1 .. NumCores

\* What a file of the folder is: its extension, and what happens when it is
\* processed: the key string is found on its last page ("ok"), it is not
\* (ValueError of line 129), or pymupdf cannot open it.
Folders == [FileIds -> [ext : {"pdf", "txt"}, fate : {"ok", "no_key", "broken"}]]

\* list(input_path.glob("*.pdf")), from file id k on
RECURSIVE GlobPdf(_, _)
GlobPdf(folder, k) ==
    IF k > MaxFiles THEN <<>>
    ELSE (IF folder[k].ext = "pdf" THEN <<k>> ELSE <<>>) \o GlobPdf(folder, k + 1)

\* insert_image_on_last_page(file): the exception it raises, or "none"
InsertImage(file) ==
    CASE file.fate = "ok" -> "none"
      [] file.fate = "no_key" -> "ValueError"
      [] OTHER -> "FileDataError"

\* Mutant of WorkerCatches: the worker's handler is "except ValueError".
WorkerCatchesValueError(exc) == exc = "ValueError"

\* except Exception as e (line 192)
WorkerCatches(exc) == TRUE

\* _process_file_worker(pdf_file, output_folder): its return value, or
\* "raised" when the exception leaves it
ProcessFileWorker(file) ==
    LET exc == InsertImage(file)
    IN  IF exc = "none" THEN "Processed"
        ELSE IF WorkerCatches(exc) THEN "Failed to process"
        ELSE "raised"

PfStart(folder) ==
    [folder |-> folder, at |-> "start", tasks |-> <<>>, next |-> 1,
     busy |-> [w \in Workers |-> 0],
     handed |-> [f \in FileIds |-> 0],
     results |-> [f \in FileIds |-> "none"]]

PfInit ==
    /\ pf \in {PfStart(folder) : folder \in Folders}
    /\ img_a = GrayImage(<<1, 1>>, 0)
    /\ img_b = GrayImage(<<1, 1>>, 0)
    /\ comparator = <<>>
    /\ pc = "idle"
    /\ ret = NoCall
    /\ ran = {}
    /\ stdout = <<>>
    /\ lib = NoLib
    /\ cc = Unused
    /\ pp = Unused
    /\ pd = Unused
    /\ tr = Unused

PfRest == <<comparatorVars, cc, pp, pd, tr>>

\* lines 200-216: the files are listed, the pool is created and starmap
\* queues one task per listed file
PfStarmap ==
    /\ pf.at = "start"
    /\ pf' = [pf EXCEPT !.tasks = GlobPdf(pf.folder, 1), !.at = "pool"]
    /\ UNCHANGED PfRest

\* an idle worker process takes the next queued task
PfTake(w) ==
    /\ pf.at = "pool"
    /\ pf.busy[w] = 0
    /\ pf.next <= Len(pf.tasks)
    /\ pf' = [pf EXCEPT !.busy[w] = pf.tasks[pf.next],
                        !.handed[pf.tasks[pf.next]] = @ + 1,
                        !.next = @ + 1]
    /\ UNCHANGED PfRest

\* the worker process runs _process_file_worker on its task and sends the
\* outcome back
PfWork(w) ==
    /\ pf.at = "pool"
    /\ pf.busy[w] # 0
    /\ pf' = [pf EXCEPT !.results[pf.busy[w]] = ProcessFileWorker(pf.folder[pf.busy[w]]),
                        !.busy[w] = 0]
    /\ UNCHANGED PfRest

\* every task has its outcome: starmap returns the results, or raises the
\* exception a task ended with, and the with block closes the pool
PfJoin ==
    /\ pf.at = "pool"
    /\ pf.next > Len(pf.tasks)
    /\ \A w \in Workers : pf.busy[w] = 0
    /\ pf' = [pf EXCEPT !.at = IF \E f \in FileIds : pf.results[f] = "raised"
                               THEN "raised" ELSE "done"]
    /\ UNCHANGED PfRest

PfNext ==
    \/ PfStarmap
    \/ \E w \in Workers : PfTake(w)
    \/ \E w \in Workers : PfWork(w)
    \/ PfJoin

SpecFolder == PfInit /\ [][PfNext]_vars

\* ------------------------------------------------------------------ claims

\* A compare_images call has ended and the caller has its outcome.
CompareEnded == pc = "returned" /\ ret.op = "compare_images"

\* An estimator call has ended and the caller has its outcome.
EstimatorEnded == pc = "returned" /\ ret.op \in EstimatorNames

InUnit(v) == 0 <= v /\ v <= Unit

\* C1: for every pair of input images, compare_images returns a value r
\* with 0.0 <= r <= 1.0.
C1_CompareInRange ==
    CompareEnded => ret.kind = "value" /\ InUnit(ret.val)

C1_Witness ==
    CompareEnded /\ ret.kind = "value" /\ InUnit(ret.val) /\ img_a # img_b

\* C2 (as claimed): comparing an image with itself returns at least 0.80.
C2_IdentityAtLeast80 ==
    (CompareEnded /\ img_a = img_b) =>
        ret.kind = "value" /\ ret.val >= (4 * Unit) \div 5

\* C3: compare_images never raises to its caller, also for inputs of
\* different dimensions and for 1x1 images; when an exception reached the
\* top-level handler (which prints the diagnostic) the call returns 0.0.
C3_CompareNeverRaises ==
    CompareEnded =>
        /\ ret.kind = "value"
        /\ stdout # <<>> => ret.val = 0

C3_Witness ==
    /\ CompareEnded
    /\ img_a.size = <<1, 1>>
    /\ img_b.size # img_a.size
    /\ stdout # <<>>
    /\ ret.kind = "value"
    /\ ret.val = 0

\* C4 (as claimed): a failure inside an estimator is recovered inside that
\* estimator as the score 0.0: an estimator call in which a library call
\* raised still returns, and returns 0.0.
C4_FailureRecoveredInside ==
    (EstimatorEnded /\ ret.fault) => ret.kind = "value" /\ ret.val = 0

\* The scores compare_images is claimed to combine: those of the five
\* estimators on the preprocessed pair of the two images.
ScoresOf(outcomes) == {o.val : o \in {x \in outcomes : x.kind = "value"}}

ExpectedResults(a, b) ==
    LET c == NewPageComparator(a, b)
        s == ScoresOf(calculate_ssim_similarity(c))
        h == ScoresOf(calculate_histogram_similarity(c.subj_array, c.obj_array, FALSE))
        o == ScoresOf(calculate_orb_similarity(c.subj_array, c.obj_array, FALSE))
        t == ScoresOf(calculate_text_similarity(c.subj_array, c.obj_array, FALSE))
        p == ScoresOf(calculate_pixel_similarity(c.subj_array, c.obj_array, FALSE))
    IN  {Clamp01((35 * x[1] + 25 * x[2] + 15 * x[3] + 15 * x[4] + 10 * x[5]) \div 100) :
            x \in s \X h \X o \X t \X p}

C6_SameShape ==
    comparator # <<>> =>
        comparator[1].subj_array.shape = comparator[1].obj_array.shape

C6_Witness ==
    /\ comparator # <<>>
    /\ img_a.size # img_b.size
    /\ img_a.mode # img_b.mode
    /\ comparator[1].subj_array.shape = comparator[1].obj_array.shape

\* round(x / 2) as Python and numpy round: halves go to the even neighbour.
RoundHalf(sum) ==
    IF sum % 2 = 0 THEN sum \div 2
    ELSE IF ((sum - 1) \div 2) % 2 = 0 THEN (sum - 1) \div 2 ELSE (sum + 1) \div 2

\* C7 (as claimed): when the dimensions differ, both arrays have width
\* round(mean(width_a, width_b)) and height round(mean(height_a, height_b)).
C7_RoundedMean ==
    (comparator # <<>> /\ img_a.size # img_b.size) =>
        LET target == <<RoundHalf(img_a.size[2] + img_b.size[2]),
                        RoundHalf(img_a.size[1] + img_b.size[1])>>
        IN  /\ comparator[1].subj_array.shape = target
            /\ comparator[1].obj_array.shape = target

\* C7 (amended): when the dimensions differ, both arrays have the width
\* and the height of the mean truncated to an integer: floor((a + b) / 2)
\* on each axis.
C7_TruncatedMean ==
    (comparator # <<>> /\ img_a.size # img_b.size) =>
        LET target == <<(img_a.size[2] + img_b.size[2]) \div 2,
                        (img_a.size[1] + img_b.size[1]) \div 2>>
        IN  /\ comparator[1].subj_array.shape = target
            /\ comparator[1].obj_array.shape = target

C7_Witness ==
    /\ comparator # <<>>
    /\ img_a.size[1] = 1
    /\ img_b.size[1] = 2
    /\ comparator[1].subj_array.shape[2] = 1
    /\ comparator[1].obj_array.shape[2] = 1

\* arr is img as an array, cell for pixel: shape <<height, width>> and
\* arr[row, col] = img(col, row).
SamePixels(arr, img) ==
    /\ arr.shape = <<img.size[2], img.size[1]>>
    /\ \A xy \in Coords(img.size) : arr.data[<<xy[2], xy[1]>>] = img.px[xy]

\* C8: when the two images have equal dimensions the preprocessing does
\* not resize: subject and object keep the inputs' size, and each array has
\* the shape of its (grayscale) image and that image's pixel in every cell.
C8_NoResizeWhenEqual ==
    (comparator # <<>> /\ img_a.size = img_b.size) =>
        /\ comparator[1].subject.size = img_a.size
        /\ comparator[1].object.size = img_b.size
        /\ SamePixels(comparator[1].subj_array, comparator[1].subject)
        /\ SamePixels(comparator[1].obj_array, comparator[1].object)
        /\ img_a.mode = "L" => SamePixels(comparator[1].subj_array, img_a)
        /\ img_b.mode = "L" => SamePixels(comparator[1].obj_array, img_b)

C8_Witness ==
    /\ comparator # <<>>
    /\ img_a.size = img_b.size
    /\ img_a.size[1] # img_a.size[2]
    /\ img_a # img_b
    /\ ~IsUniform(comparator[1].subj_array)
    /\ img_b.mode = "L"
    /\ SamePixels(comparator[1].obj_array, img_b)

\* The two arrays of the estimator call that ended.
CallOperands ==
    IF ret.src = "raw" THEN Operands("raw") ELSE Operands("preprocessed")

\* C9: every estimator applied to two equal-shape 8-bit matrices returns
\* a score s with 0.0 <= s <= 1.0: unless a library call faults it returns,
\* and whatever it returns is in range.
C9_EstimatorInRange ==
    (EstimatorEnded /\ ret.exc # "AttributeError"
        /\ CallOperands[1].shape = CallOperands[2].shape) =>
        /\ ~ret.fault => ret.kind = "value"
        /\ ret.kind = "value" => InUnit(ret.val)

C9_Witness ==
    /\ EstimatorEnded
    /\ ret.op = "calculate_text_similarity"
    /\ ret.src = "preprocessed"
    /\ ret.kind = "value"
    /\ ret.val \notin {0, Unit}
    /\ InUnit(ret.val)

\* C10 (as claimed): each of the five no-argument estimator methods of a
\* PageComparator, 1x1 images included, returns a score in [0, 1] and does
\* not raise.
C10_MethodsReturnScores ==
    (EstimatorEnded /\ ret.src = "method") =>
        ret.kind = "value" /\ InUnit(ret.val)

\* The structural estimator, called as the method it is, has ended.
SsimEnded ==
    pc = "returned" /\ ret.op = "calculate_ssim_similarity" /\ ret.src = "method"

\* C11: calculate_ssim_similarity never lets an exception out: when the
\* library computed the index it returns max(0.0, index), so 0.0 for a
\* negative index, and when the index computation raised it returns 0.0.
C11_SsimFloorsAndRecovers ==
    SsimEnded =>
        /\ ret.kind = "value"
        /\ lib.raised => ret.val = 0
        /\ ~lib.raised => ret.val = (IF lib.index < 0 THEN 0 ELSE lib.index)

\* 1x1 inputs are below the window: the library raised and 0.0 came back.
C11_Witness ==
    /\ SsimEnded
    /\ img_a.size = <<1, 1>>
    /\ img_b.size = <<1, 1>>
    /\ lib.raised
    /\ ret.kind = "value"
    /\ ret.val = 0

\* A negative index was computed and 0.0 came back.
C11_NegativeIndex ==
    SsimEnded /\ ~lib.raised /\ lib.index < 0 /\ ret.kind = "value" /\ ret.val = 0

\* A direct call of estimator fn, in which no library call raised, has ended.
FunctionEnded(fn) == pc = "returned" /\ ret.op = fn /\ ret.src # "method" /\ ~ret.fault

\* C12: the histogram estimator returns exactly 1.0 whenever its two input
\* matrices are identical, and otherwise (r + 1) / 2 clamped to [0, 1], r
\* being the correlation of the two normalised 256-bin histograms.
C12_HistogramScore ==
    FunctionEnded("calculate_histogram_similarity") =>
        /\ ret.kind = "value"
        /\ CallOperands[1] = CallOperands[2] => ret.val = Unit
        /\ CallOperands[1] # CallOperands[2] =>
               LET r == Correlation(CallOperands[1], CallOperands[2])
                   mapped == (r + Unit) \div 2
               IN  ret.val = (IF mapped < 0 THEN 0 ELSE IF mapped > Unit THEN Unit ELSE mapped)

\* Two identical patterned matrices scored 1.0.
C12_Witness ==
    /\ FunctionEnded("calculate_histogram_similarity")
    /\ CallOperands[1] = CallOperands[2]
    /\ ~IsUniform(CallOperands[1])
    /\ ret.kind = "value"
    /\ ret.val = Unit

\* Two different matrices scored strictly between 0.0 and 1.0.
C12_DifferentMatrices ==
    /\ FunctionEnded("calculate_histogram_similarity")
    /\ CallOperands[1] # CallOperands[2]
    /\ ret.kind = "value"
    /\ 0 < ret.val /\ ret.val < Unit

\* C13: the feature estimator returns exactly 0.0, without raising, whenever
\* at least one of the two images yields no descriptors (a uniform image
\* yields none), whatever the other image yields.
C13_NoDescriptorsScoreZero ==
    (FunctionEnded("calculate_orb_similarity") /\ (lib.kp1 = 0 \/ lib.kp2 = 0)) =>
        ret.kind = "value" /\ ret.val = 0

\* A uniform first image yielded nothing while the second yielded descriptors.
C13_Witness ==
    /\ FunctionEnded("calculate_orb_similarity")
    /\ IsUniform(CallOperands[1])
    /\ lib.kp1 = 0
    /\ lib.kp2 > 0
    /\ ret.kind = "value"
    /\ ret.val = 0

\* C14: when both images yield descriptors the feature estimator returns
\* 0.0 if the number m of accepted mutual-best matches is 0, and otherwise
\* min(1.0, m / min(keypoint_count_a, keypoint_count_b)).
C14_MatchRatio ==
    (FunctionEnded("calculate_orb_similarity") /\ lib.kp1 > 0 /\ lib.kp2 > 0) =>
        /\ ret.kind = "value"
        /\ ret.val =
              (IF lib.matches = 0 THEN 0
               ELSE LET smaller == IF lib.kp1 < lib.kp2 THEN lib.kp1 ELSE lib.kp2
                        ratio == (lib.matches * Unit) \div smaller
                    IN  IF ratio > Unit THEN Unit ELSE ratio)

\* Counts 2 and 1 with one match scored 1.0: the divisor is the smaller count.
C14_Witness ==
    /\ FunctionEnded("calculate_orb_similarity")
    /\ lib.kp1 = 2
    /\ lib.kp2 = 1
    /\ lib.matches = 1
    /\ ret.kind = "value"
    /\ ret.val = Unit

\* Two descriptors on each side with a single mutual-best match scored 0.5.
C14_PartialMatch ==
    /\ FunctionEnded("calculate_orb_similarity")
    /\ lib.kp1 = 2 /\ lib.kp2 = 2 /\ lib.matches = 1
    /\ ret.val = Unit \div 2

\* The normalised form of t is empty: t holds nothing but whitespace.
IsBlank(t) == \A i \in 1 .. Len(t) : IsSpace(t[i])

\* A direct call of the text estimator has ended in which both OCR calls
\* returned their text.
TextEnded == FunctionEnded("calculate_text_similarity") /\ lib.ocr_calls = 2

\* C15 (as claimed): for any two OCR outputs whose normalised forms are both
\* empty the text estimator returns exactly 1.0, also when one raw output is
\* the empty string and the other holds only whitespace.
C15_BothBlankScoreOne ==
    (TextEnded /\ IsBlank(lib.text1) /\ IsBlank(lib.text2)) =>
        ret.kind = "value" /\ ret.val = Unit

\* The case of C15 that the code scores 0.0: "" against whitespace only.
C15_EmptyAgainstWhitespace ==
    /\ TextEnded
    /\ lib.text1 = <<>>
    /\ lib.text2 # <<>>
    /\ IsBlank(lib.text2)
    /\ ret.kind = "value"
    /\ ret.val = 0

\* C16: for any two OCR outputs of which exactly one has an empty normalised
\* form the text estimator returns exactly 0.0.
C16_OneBlankScoreZero ==
    (TextEnded /\ IsBlank(lib.text1) # IsBlank(lib.text2)) =>
        ret.kind = "value" /\ ret.val = 0

\* Whitespace only against a text with letters (and a space) scored 0.0.
C16_Witness ==
    /\ TextEnded
    /\ lib.text1 # <<>>
    /\ IsBlank(lib.text1)
    /\ lib.text2 = <<"a", " ", "b">>
    /\ ret.kind = "value"
    /\ ret.val = 0

\* The words of t, lower-cased.
LowerWords(t) == [i \in DOMAIN Split(t) |-> Lower(Split(t)[i])]

\* C17: for any two OCR outputs whose normalised forms are non-empty and
\* identical (raw texts that differ only in letter case or in the amount and
\* kind of whitespace) the text estimator returns exactly 1.0.
C17_SameNormalFormScoreOne ==
    (TextEnded /\ ~IsBlank(lib.text1) /\ ~IsBlank(lib.text2)
        /\ LowerWords(lib.text1) = LowerWords(lib.text2)) =>
        ret.kind = "value" /\ ret.val = Unit

\* "a b" against "A\n B": different raw texts, one normal form.
C17_Witness ==
    /\ TextEnded
    /\ lib.text1 = <<"a", " ", "b">>
    /\ lib.text2 = <<"A", "\n", " ", "B">>
    /\ ret.kind = "value"
    /\ ret.val = Unit

\* The distinct characters of the normalised form of t: its letters
\* lower-cased, and a space when it has more than one word.
NormalChars(t) ==
    {LowerChar(t[i]) : i \in {j \in 1 .. Len(t) : ~IsSpace(t[j])}}
        \cup (IF Len(Split(t)) > 1 THEN {" "} ELSE {})

\* C18: for two non-empty, non-identical normalised texts the text estimator
\* returns |S1 \cap S2| / |S1 \cup S2|, S1 and S2 being the sets of distinct
\* characters of the two normalised texts: a function of the two sets only,
\* not of character order or frequency.
C18_Jaccard ==
    (TextEnded /\ ~IsBlank(lib.text1) /\ ~IsBlank(lib.text2)
        /\ LowerWords(lib.text1) # LowerWords(lib.text2)) =>
        /\ ret.kind = "value"
        /\ ret.val =
              (Cardinality(NormalChars(lib.text1) \cap NormalChars(lib.text2)) * Unit)
                  \div Cardinality(NormalChars(lib.text1) \cup NormalChars(lib.text2))

\* "ab" against "a b": two of three distinct characters are shared.
C18_Witness ==
    /\ TextEnded
    /\ lib.text1 = <<"a", "b">>
    /\ lib.text2 = <<"a", " ", "b">>
    /\ ret.kind = "value"
    /\ ret.val = (2 * Unit) \div 3

\* "ab" against "aab" and against "ba": the same sets, so 1.0.
C18_OrderAndFrequency ==
    /\ TextEnded
    /\ lib.text1 = <<"a", "b">>
    /\ lib.text2 \in {<<"a", "a", "b">>, <<"b", "a">>}
    /\ ret.val = Unit

\* C19: if the OCR capability raises on either image the text estimator
\* returns 0.0 and lets no exception out; when it raised on the first image
\* no OCR was attempted on the second.
C19_OcrFailureScoreZero ==
    (pc = "returned" /\ ret.op = "calculate_text_similarity" /\ lib.raised) =>
        /\ ret.kind = "value"
        /\ ret.val = 0
        /\ lib.ocr_failed = 1 => lib.ocr_calls = 1 /\ lib.text2 = <<>>

\* OCR raised on the first image of two patterned images.
C19_Witness ==
    /\ pc = "returned"
    /\ ret.op = "calculate_text_similarity"
    /\ ret.fault
    /\ lib.ocr_failed = 1
    /\ lib.ocr_calls = 1
    /\ ~IsUniform(CallOperands[2])
    /\ ret.kind = "value"
    /\ ret.val = 0

\* OCR returned a text for the first image and raised on the second.
C19_SecondFails ==
    /\ pc = "returned"
    /\ ret.op = "calculate_text_similarity"
    /\ lib.ocr_failed = 2
    /\ lib.text1 # <<>>
    /\ ret.kind = "value"
    /\ ret.val = 0

\* Every cell of arr holds v.
AllCells(arr, v) == \A rc \in DOMAIN arr.data : arr.data[rc] = v

\* max(0.0, 1 - mean(|a - b|) / 255) of two arrays of one shape
ExpectedPixelScore(a, b) ==
    LET n == NPixels(a)
        total == SumTo([k \in 0 .. n - 1 |->
                          IF Cell(a, k) < Cell(b, k) THEN Cell(b, k) - Cell(a, k)
                          ELSE Cell(a, k) - Cell(b, k)], n)
        score == Unit - ((total * Unit) \div n) \div 255
    IN  IF score < 0 THEN 0 ELSE score

\* C20: the pixel estimator returns max(0.0, 1 - mean(|a - b|) / 255) over the
\* per-pixel absolute differences of its two matrices, both first resized to
\* (min height, min width) when their shapes differ; so exactly 1.0 for
\* identical matrices and 0.0 for an all-0 against an all-255 matrix.
C20_PixelScore ==
    FunctionEnded("calculate_pixel_similarity") =>
        LET a == CallOperands[1]
            b == CallOperands[2]
            least == <<IF a.shape[1] < b.shape[1] THEN a.shape[1] ELSE b.shape[1],
                       IF a.shape[2] < b.shape[2] THEN a.shape[2] ELSE b.shape[2]>>
        IN  /\ ret.kind = "value"
            /\ a.shape = b.shape => ret.val = ExpectedPixelScore(a, b)
            /\ a.shape # b.shape =>
                   ret.val = ExpectedPixelScore(ResizeArray(a, least), ResizeArray(b, least))
            /\ a = b => ret.val = Unit
            /\ (AllCells(a, 0) /\ AllCells(b, MaxIntensity)) => ret.val = 0

\* Arrays of different shapes, neither shape the minimum on both axes,
\* scored strictly between 0.0 and 1.0.
C20_Witness ==
    /\ FunctionEnded("calculate_pixel_similarity")
    /\ CallOperands[1].shape[1] < CallOperands[2].shape[1]
    /\ CallOperands[1].shape[2] > CallOperands[2].shape[2]
    /\ ret.kind = "value"
    /\ 0 < ret.val /\ ret.val < Unit

\* An all-0 against an all-255 matrix scored 0.0.
C20_BlackAgainstWhite ==
    /\ FunctionEnded("calculate_pixel_similarity")
    /\ AllCells(CallOperands[1], 0)
    /\ AllCells(CallOperands[2], MaxIntensity)
    /\ ret.val = 0

\* Two identical patterned matrices scored 1.0.
C20_Identical ==
    /\ FunctionEnded("calculate_pixel_similarity")
    /\ CallOperands[1] = CallOperands[2]
    /\ ~IsUniform(CallOperands[1])
    /\ ret.val = Unit

NoIndexTwice(pairs) ==
    \A m, n \in pairs : (m[1] = n[1] \/ m[2] = n[2]) => m = n

\* C29: under cross-check matching every descriptor of either image takes
\* part in at most one accepted match, so the number of accepted matches
\* never exceeds min(descriptor_count_a, descriptor_count_b) and the ratio
\* matches / min(count_a, count_b) is at most 1.0 before the cap.
C29_MatchesBounded ==
    (FunctionEnded("calculate_orb_similarity") /\ lib.kp1 > 0 /\ lib.kp2 > 0) =>
        /\ NoIndexTwice(lib.pairs)
        /\ lib.matches = Cardinality(lib.pairs)
        /\ lib.matches <= lib.kp1
        /\ lib.matches <= lib.kp2
        /\ lib.matches * Unit <= Unit * (IF lib.kp1 < lib.kp2 THEN lib.kp1 ELSE lib.kp2)

\* Two descriptors against one: a single match was accepted although both
\* descriptors of the first image have the same nearest neighbour.
C29_Witness ==
    /\ FunctionEnded("calculate_orb_similarity")
    /\ lib.kp1 = 2
    /\ lib.kp2 = 1
    /\ Cardinality(lib.pairs) = 1
    /\ ret.val = Unit

\* C30: the two arrays of a PageComparator always have equal shapes, so the
\* pixel estimator applied to a preprocessed pair never takes its
\* min-dimension resize; that resize takes effect only in a call on arrays
\* that were not preprocessed.
C30_NoResizeAfterPreprocessing ==
    FunctionEnded("calculate_pixel_similarity") =>
        /\ ret.src = "preprocessed" =>
               /\ CallOperands[1].shape = CallOperands[2].shape
               /\ PixelOperands(CallOperands[1], CallOperands[2]) = CallOperands
        /\ PixelOperands(CallOperands[1], CallOperands[2]) # CallOperands =>
               ret.src = "raw"

\* The pixel estimator ran on the preprocessed pair of two images of
\* different sizes.
C30_Witness ==
    /\ FunctionEnded("calculate_pixel_similarity")
    /\ ret.src = "preprocessed"
    /\ img_a.size # img_b.size
    /\ ret.kind = "value"

\* The min-dimension resize took effect in a call on the raw arrays.
C30_RawResized ==
    /\ FunctionEnded("calculate_pixel_similarity")
    /\ ret.src = "raw"
    /\ PixelOperands(CallOperands[1], CallOperands[2]) # CallOperands

\* A call of get_page or get_page_count has returned control to its caller.
PpReturned == pp.at = "returned"

\* C22: every call of get_page and of get_page_count closes the connection
\* it opened exactly once before control returns to the caller, on the
\* success path and on every error path (document not found, page not
\* found, query failure); at no time has it closed more than it opened.
C22_ConnectionClosedOnce ==
    /\ pp.closes <= pp.opens
    /\ pp.opens <= 1
    /\ (PpReturned /\ pp.opens = 1) => (pp.closes = 1 /\ pp.conn = "closed")

\* get_page returned from a failing page query with the connection closed.
C22_Witness ==
    /\ PpReturned
    /\ pp.op = "get_page"
    /\ pp.exc = "sqlite3.Error"
    /\ pp.queries = <<"select_document">>
    /\ pp.opens = 1
    /\ pp.closes = 1

\* C23: get_page and get_page_count raise ValueError when no document row
\* exists for the path, and get_page raises ValueError when the document
\* exists but has no row for the page number; in both cases no later query
\* is issued and no ParsedPage or count is returned.
C23_NotFoundRaisesValueError ==
    (PpReturned /\ ~pp.fault) =>
        /\ ~pp.db[pp.path].exists =>
               /\ pp.exc = "ValueError"
               /\ pp.queries = <<"select_document">>
               /\ pp.result.kind = "none"
        /\ (pp.op = "get_page" /\ pp.db[pp.path].exists
               /\ pp.page_num \notin pp.db[pp.path].pages) =>
               /\ pp.exc = "ValueError"
               /\ pp.queries = <<"select_document", "select_page">>
               /\ pp.result.kind = "none"

\* get_page for a page the stored document does not have, while it has another.
C23_Witness ==
    /\ PpReturned
    /\ pp.op = "get_page"
    /\ pp.db[pp.path].exists
    /\ pp.db[pp.path].pages = {1}
    /\ pp.page_num = 2
    /\ pp.exc = "ValueError"
    /\ pp.result.kind = "none"

\* get_page_count for a path without a document row.
C23_CountUnknownDocument ==
    /\ PpReturned
    /\ pp.op = "get_page_count"
    /\ ~pp.db[pp.path].exists
    /\ pp.exc = "ValueError"

\* A run of persist_to_db that opened its connection has returned control.
PdReturned == pd.at = "returned" /\ pd.opens = 1

\* The page numbers of the issued statements of kind op, in order.
RECURSIVE PagesOf(_, _)
PagesOf(issued, op) ==
    IF issued = <<>> THEN <<>>
    ELSE (IF Head(issued).op = op THEN <<Head(issued).page>> ELSE <<>>)
            \o PagesOf(Tail(issued), op)

\* Every statement of the document was issued: the document row, the pages
\* 1, 2, ... in order, and for every page as many image rows as it has images.
AllIssued ==
    /\ PagesOf(pd.issued, "insert_document") = <<0>>
    /\ PagesOf(pd.issued, "insert_page") = [p \in 1 .. Len(pd.doc) |-> p]
    /\ \A p \in 1 .. Len(pd.doc) :
           Cardinality({k \in DOMAIN pd.issued :
                           pd.issued[k] = Stmt("insert_image", p)}) = pd.doc[p]
    /\ \A k \in DOMAIN pd.issued :
           pd.issued[k].op = "insert_image" => pd.issued[k].page \in 1 .. Len(pd.doc)

\* C24 (as claimed): every run ends with exactly one of commit or rollback
\* followed by exactly one close; commit is called once, after all
\* statements were issued, if and only if nothing raised; if anything raises
\* the run rolls back, never calls commit, and re-raises.
C24_ExactlyOneOfCommitRollback ==
    PdReturned =>
        /\ pd.log \in {<<"commit", "close">>, <<"rollback", "close">>}
        /\ pd.commit_calls = 1 <=> pd.exc = "none"
        /\ pd.commit_calls = 1 => AllIssued
        /\ pd.exc # "none" => (pd.rollbacks = 1 /\ pd.commit_calls = 0)

\* C24 (amended): every run ends with exactly one close, preceded by either
\* one commit that succeeded or one rollback.  commit is called at most once
\* and only after the document, every page (numbered from 1) and every image
\* statement has been issued; the transaction is committed if and only if
\* nothing raised.  If a statement or the commit itself raises, the run rolls
\* back once, commits nothing and re-raises; after a failed commit both
\* commit and rollback have been called.
C24_CommittedOrRolledBack ==
    PdReturned =>
        /\ pd.closes = 1
        /\ pd.log[Len(pd.log)] = "close"
        /\ pd.commits + pd.rollbacks = 1
        /\ pd.commit_calls <= 1
        /\ pd.commit_calls = 1 => AllIssued
        /\ pd.commits = 1 <=> pd.exc = "none"
        /\ pd.exc # "none" => (pd.rollbacks = 1 /\ pd.commits = 0)
        /\ pd.failed = "commit" => pd.log = <<"commit", "rollback", "close">>
        /\ pd.failed \notin {"none", "commit"} => pd.log = <<"rollback", "close">>

\* The insert of the second page raised after the first page, with an
\* image, had been issued: rolled back, nothing committed, closed, re-raised.
C24_Witness ==
    /\ PdReturned
    /\ Len(pd.doc) = 2
    /\ pd.doc[1] = 1
    /\ pd.failed = "insert_page"
    /\ PagesOf(pd.issued, "insert_page") = <<1>>
    /\ pd.exc # "none"
    /\ pd.log = <<"rollback", "close">>

\* A document of two pages with images was committed.
C24_Committed ==
    /\ PdReturned
    /\ Len(pd.doc) = 2
    /\ pd.doc[2] = 2
    /\ pd.exc = "none"
    /\ pd.log = <<"commit", "close">>

\* conn.commit() raised.
C24_CommitFailed ==
    PdReturned /\ pd.failed = "commit" /\ pd.log = <<"commit", "rollback", "close">>

\* A call of insert_text_with_fallback has ended, by return or by raise.
InsertEnded == tr.at \in {"inserted", "raised"}

\* C25: insert_text_with_fallback first tries the requested font at the
\* requested size; if that succeeds nothing else is tried; if it fails, helv,
\* times, courier are tried in that order at 0.7 times the size, the function
\* returns at the first that succeeds, and if all three fail it raises the
\* exception of the first attempt.
C25_FallbackOrder ==
    InsertEnded =>
        LET info == tr.spans[tr.idx]
            n == Len(tr.attempts)
            order == <<"helv", "times", "courier">>
        IN  /\ n >= 1
            /\ n <= 4
            /\ tr.attempts[1].font = info.font
            /\ tr.attempts[1].tenths = 10 * info.size
            /\ \A k \in 2 .. n :
                   /\ tr.attempts[k].font = order[k - 1]
                   /\ tr.attempts[k].tenths = 7 * info.size
            /\ \A k \in 1 .. n - 1 : ~tr.attempts[k].ok
            /\ tr.at = "inserted" => tr.attempts[n].ok
            /\ tr.at = "raised" =>
                   (n = 4 /\ ~tr.attempts[4].ok /\ tr.exc = info.font)

\* The requested font and helv failed, times succeeded, courier was not tried.
C25_Witness ==
    /\ tr.at = "inserted"
    /\ Len(tr.attempts) = 3
    /\ tr.attempts[1].font = "Sarabun"
    /\ ~tr.attempts[2].ok
    /\ tr.attempts[3].font = "times"
    /\ tr.attempts[3].ok

\* All four attempts failed and the first exception was raised.
C25_AllFailed ==
    tr.at = "raised" /\ Len(tr.attempts) = 4 /\ tr.exc = tr.spans[tr.idx].font

\* C26 (as claimed): if the user entered no translation (an empty answer at
\* the first prompt, or no spans at all) no output PDF is saved; the output
\* is saved only when at least one translation was entered.
C26_SavedOnlyWithTranslation ==
    tr.at = "done" => (tr.saved => tr.entered > 0)

\* The run of C26 that saves a blank page: spans exist, the first answer is
\* empty, and the output is saved.
C26_SavedWithoutTranslation ==
    tr.at = "done" /\ Len(tr.spans) > 0 /\ tr.entered = 0 /\ tr.saved

\* C27: process_folder hands every *.pdf file of the input folder to
\* _process_file_worker exactly once (and no other file), and the worker
\* never raises: a failure on one file comes back as a 'Failed to process'
\* result, so the pool is not aborted and every other file is processed.
C27_EveryPdfOnce ==
    /\ \A f \in FileIds : pf.handed[f] <= 1
    /\ \A f \in FileIds : pf.results[f] # "raised"
    /\ pf.at # "raised"
    /\ pf.at = "done" =>
           \A f \in FileIds :
               /\ pf.handed[f] = (IF pf.folder[f].ext = "pdf" THEN 1 ELSE 0)
               /\ pf.folder[f].ext # "pdf" => pf.results[f] = "none"
               /\ (pf.folder[f].ext = "pdf" /\ pf.folder[f].fate = "ok") =>
                      pf.results[f] = "Processed"
               /\ (pf.folder[f].ext = "pdf" /\ pf.folder[f].fate # "ok") =>
                      pf.results[f] = "Failed to process"

\* One file lacks the key string, one cannot be opened, one is fine: the
\* pool ended with two failures reported and the third file processed.
C27_Witness ==
    /\ pf.at = "done"
    /\ \A f \in FileIds : pf.folder[f].ext = "pdf"
    /\ pf.folder[1].fate = "no_key"
    /\ pf.folder[2].fate = "broken"
    /\ pf.folder[3].fate = "ok"
    /\ pf.results[1] = "Failed to process"
    /\ pf.results[2] = "Failed to process"
    /\ pf.results[3] = "Processed"

\* C21: a comparison reads and writes no state shared between calls: in
\* every interleaving of concurrent comparisons each call returns a value
\* it can return when run alone on its own two images, whatever the other
\* caller did before or meanwhile, earlier calls included.
C21_SameAsAlone ==
    \A t \in Threads :
        cc.threads[t].at = "returned" =>
            cc.threads[t].result \in
                AloneResults(cc.threads[t].op, cc.inputs[t][1], cc.inputs[t][2])

\* Thread t1 got the pixel score 1.0 of its own identical pair although t2
\* built a comparator of two different images after t1 had built its own,
\* and a compare_images call had printed before.
C21_Witness ==
    /\ cc.threads["t1"].at = "returned"
    /\ cc.threads["t1"].op = "calculate_pixel_similarity"
    /\ cc.inputs["t1"][1] = cc.inputs["t1"][2]
    /\ cc.inputs["t2"][1] # cc.inputs["t2"][2]
    /\ cc.threads["t2"].at = "constructed"
    /\ cc.stdout # {}
    /\ cc.threads["t1"].result = Unit

\* Both threads are inside compare_images at once.
C21_BothInCompare ==
    cc.threads["t1"].at = "except" /\ cc.threads["t2"].at = "try"

====
